---- MODULE Spec2Model ----
(***************************************************************************)
(* Model of object_store's attribute collection (attributes.rs) and of the *)
(* list / multipart / tagging conversions shared by the S3-style clients   *)
(* (client/s3.rs).                                                         *)
(*                                                                         *)
(* Four specifications share the module, one per component:                *)
(*   SpecAttr       Attributes: new / insert / get / remove / iter / ...   *)
(*   SpecList       ListResult::try_from(ListResponse)                     *)
(*   SpecMultipart  CompleteMultipartUpload::from(Vec<PartId>)             *)
(*   SpecTag        HashMap <-> Tagging and the two XML renderings         *)
(* The variables of the other components are held fixed in each.           *)
(*                                                                         *)
(* Option<T> is modelled as a sequence of length <= 1: None is <<>> and    *)
(* Some(x) is <<x>>, so that Option<Option<T>> keeps None, Some(None) and  *)
(* Some(Some(x)) apart.  Result<T, E> is a record tagged by `ok`.          *)
(***************************************************************************)
EXTENDS Integers, Sequences, FiniteSets, TLC

VARIABLES
    attrs,        \* Attributes.0 : HashMap<Attribute, Option<AttributeValue>>
    ret,          \* value returned by the last Attributes call
    last,         \* the last Attributes call: [op, key, value]
    insertedKeys, \* history: keys passed to insert since new()
    distinctOnly, \* history: only inserts, all with distinct keys, since new()
    response,     \* the ListResponse handed to ListResult::try_from
    listResult,   \* Option<Result<ListResult>>: what try_from returned
    parts,        \* the Vec<PartId> handed to CompleteMultipartUpload::from
    complete,     \* Option<CompleteMultipartUpload>: what from returned
    tagMap,       \* a HashMap<String, String> of tags
    tagging,      \* a Tagging document
    fromMap,      \* TRUE when tagging is Tagging::from(tagMap)
    backMap,      \* Option<HashMap<String, String>>: HashMap::from(tagging)
    xml,          \* Option<Result<String>>: tagging.to_xml_document()
    xmlAzure      \* Option<Result<String>>: tagging.to_xml_document_for_azure()

attrVars == <<attrs, ret, last, insertedKeys, distinctOnly>>
listVars == <<response, listResult>>
partVars == <<parts, complete>>
tagVars  == <<tagMap, tagging, fromMap, backMap, xml, xmlAzure>>
vars     == <<attrVars, listVars, partVars, tagVars>>

----------------------------------------------------------------------------
(* Bounds *)

\* most entries the collection is grown to
MaxAttrs == 2
\* longest contents / common_prefixes sequence of a ListResponse
MaxEntries == 2
\* longest Vec<PartId>
MaxParts == 4
\* longest Tag sequence of a Tagging document taken from the wire
MaxTags == 3

----------------------------------------------------------------------------
(* Option and generic helpers *)

None == <<>>
Some(x) == <<x>>

\* all sequences over S of length at most n
SeqsUpTo(S, n) == UNION {[1..k -> S] : k \in 0..n}

\* the empty map
EmptyMap == [k \in {} |-> None]

\* the enumerations of a finite set, each element once: the orders in which
\* std::collections::HashMap may iterate over its entries
Orders(S) ==
    {s \in [1..Cardinality(S) -> S] :
        \A i, j \in 1..Cardinality(S) : s[i] = s[j] => i = j}

----------------------------------------------------------------------------
(* attributes.rs *)

\* enum Attribute: five well-known variants and two carrying a string
MetadataNames == {"key1"}
Attribute ==
    {<<"ContentDisposition">>, <<"ContentEncoding">>, <<"ContentLanguage">>,
     <<"ContentType">>, <<"CacheControl">>}
    \cup {<<"Metadata", s>> : s \in MetadataNames}
    \cup {<<"ProviderSpecific", s>> : s \in MetadataNames}

\* struct AttributeValue(Cow<'static, str>): compared by its text
AttributeValue == {"v1", "v2"}

\* Option<AttributeValue>
OptValue == {None} \cup {Some(v) : v \in AttributeValue}

\* Attributes::new
new == EmptyMap

\* Attributes::len
len(a) == Cardinality(DOMAIN a)

\* Attributes::is_empty
is_empty(a) == DOMAIN a = {}

\* Attributes::get
get(a, key) == IF key \in DOMAIN a THEN Some(a[key]) ELSE None

\* Attributes::insert: the map after the call and the returned previous value
insert_lossy(a, key, value) ==
    [map |-> IF value = None THEN [k \in DOMAIN a \ {key} |-> a[k]]
             ELSE [k \in DOMAIN a \cup {key} |-> IF k = key THEN value ELSE a[k]],
     ret |-> IF key \in DOMAIN a /\ a[key] # None THEN Some(a[key]) ELSE None]

\* an insert that leaves an existing entry as it is
insert_keep(a, key, value) ==
    [map |-> [k \in DOMAIN a \cup {key} |-> IF k \in DOMAIN a THEN a[k] ELSE value],
     ret |-> get(a, key)]

insert(a, key, value) ==
    [map |-> [k \in DOMAIN a \cup {key} |-> IF k = key THEN value ELSE a[k]],
     ret |-> get(a, key)]

\* Attributes::remove: the map after the call and the removed value
remove_clear(a, key) ==
    [map |-> IF key \in DOMAIN a THEN [k \in DOMAIN a |-> IF k = key THEN None ELSE a[k]]
             ELSE a,
     ret |-> get(a, key)]

remove(a, key) ==
    [map |-> [k \in DOMAIN a \ {key} |-> a[k]],
     ret |-> get(a, key)]

\* Attributes::iter under one iteration order of the HashMap
iter(a, order) == [i \in 1..Len(order) |-> <<order[i], a[order[i]]>>]

\* Attributes::iter_set_values: filter_map keeping the entries whose value is
\* Some, unwrapped
RECURSIVE filter_map_set(_)
filter_map_set(s) ==
    IF s = <<>> THEN <<>>
    ELSE LET k == Head(s)[1]
             v == Head(s)[2]
         IN (IF v # None THEN << <<k, v[1]>> >> ELSE <<>>) \o filter_map_set(Tail(s))

iter_set_values_all(a, order) == iter(a, order)

iter_set_values(a, order) == filter_map_set(iter(a, order))

AttrInit ==
    /\ attrs = new
    /\ ret = None
    /\ last = [op |-> "new"]
    /\ insertedKeys = {}
    /\ distinctOnly = TRUE

New ==
    /\ attrs' = new
    /\ ret' = None
    /\ last' = [op |-> "new"]
    /\ insertedKeys' = {}
    /\ distinctOnly' = TRUE
    /\ UNCHANGED <<listVars, partVars, tagVars>>

Insert(key, value) ==
    /\ key \in DOMAIN attrs \/ len(attrs) < MaxAttrs
    /\ attrs' = insert(attrs, key, value).map
    /\ ret' = insert(attrs, key, value).ret
    /\ last' = [op |-> "insert", key |-> key, value |-> value]
    /\ distinctOnly' = (distinctOnly /\ key \notin insertedKeys)
    /\ insertedKeys' = IF distinctOnly' THEN insertedKeys \cup {key} ELSE {}
    /\ UNCHANGED <<listVars, partVars, tagVars>>

Get(key) ==
    /\ ret' = get(attrs, key)
    /\ last' = [op |-> "get", key |-> key]
    /\ UNCHANGED <<attrs, insertedKeys, distinctOnly>>
    /\ UNCHANGED <<listVars, partVars, tagVars>>

Remove(key) ==
    /\ attrs' = remove(attrs, key).map
    /\ ret' = remove(attrs, key).ret
    /\ last' = [op |-> "remove", key |-> key]
    /\ distinctOnly' = FALSE
    /\ insertedKeys' = {}
    /\ UNCHANGED <<listVars, partVars, tagVars>>

Iter ==
    /\ \E order \in Orders(DOMAIN attrs) : ret' = iter(attrs, order)
    /\ last' = [op |-> "iter"]
    /\ UNCHANGED <<attrs, insertedKeys, distinctOnly>>
    /\ UNCHANGED <<listVars, partVars, tagVars>>

IterSetValues ==
    /\ \E order \in Orders(DOMAIN attrs) : ret' = iter_set_values(attrs, order)
    /\ last' = [op |-> "iter_set_values"]
    /\ UNCHANGED <<attrs, insertedKeys, distinctOnly>>
    /\ UNCHANGED <<listVars, partVars, tagVars>>

AttrNext ==
    \/ New
    \/ \E key \in Attribute, value \in OptValue : Insert(key, value)
    \/ \E key \in Attribute : Get(key)
    \/ \E key \in Attribute : Remove(key)
    \/ Iter
    \/ IterSetValues

----------------------------------------------------------------------------
(* Result<T> *)

Ok(x) == [ok |-> TRUE, value |-> x]
Err(e) == [ok |-> FALSE, error |-> e]

\* Iterator<Item = Result<T>>::collect::<Result<Vec<T>>>(): the values in
\* order, or the first error met
RECURSIVE collect(_)
collect(rs) ==
    IF rs = <<>> THEN Ok(<<>>)
    ELSE IF ~Head(rs).ok THEN Head(rs)
    ELSE LET rest == collect(Tail(rs))
         IN IF rest.ok THEN Ok(<<Head(rs).value>> \o rest.value) ELSE rest

\* a collect that drops the failed items instead of failing
RECURSIVE collect_skipping(_)
collect_skipping(rs) ==
    IF rs = <<>> THEN Ok(<<>>)
    ELSE LET rest == collect_skipping(Tail(rs))
         IN IF Head(rs).ok THEN Ok(<<Head(rs).value>> \o rest.value) ELSE rest

----------------------------------------------------------------------------
(* client/s3.rs: listing *)

\* raw key / prefix strings met on the wire, and those Path::parse rejects
RawPaths == {"a/b", "a//b", "c/../d"}
Unparsable == {"a//b", "c/../d"}

\* Path::parse (crate::path): a structured Path, or an error naming the raw
\* string
Path_parse(s) ==
    IF s \in Unparsable THEN Err([kind |-> "InvalidPath", path |-> s])
    ELSE Ok([raw |-> s])

\* struct ListContents
ListContents ==
    [key : RawPaths, size : {0, 7}, last_modified : {"2024-01-01T00:00:00Z"},
     e_tag : {None, Some("etag1")}]

\* struct ListPrefix
ListPrefix == [prefix : RawPaths]

\* struct ListResponse
ListResponse ==
    [contents : SeqsUpTo(ListContents, MaxEntries),
     common_prefixes : SeqsUpTo(ListPrefix, MaxEntries),
     next_continuation_token : {None, Some("token")}]

\* impl TryFrom<ListContents> for ObjectMeta
ObjectMeta_try_from(value) ==
    LET location == Path_parse(value.key)
    IN IF ~location.ok THEN location
       ELSE Ok([location |-> location.value,
                last_modified |-> value.last_modified,
                size |-> value.size,
                e_tag |-> value.e_tag,
                version |-> None])

\* impl TryFrom<ListResponse> for ListResult
ListResult_try_from_skipping(value) ==
    LET common_prefixes ==
            collect_skipping([i \in 1..Len(value.common_prefixes) |->
                         Path_parse(value.common_prefixes[i].prefix)])
        objects ==
            collect_skipping([i \in 1..Len(value.contents) |->
                         ObjectMeta_try_from(value.contents[i])])
    IN Ok([common_prefixes |-> common_prefixes.value, objects |-> objects.value])

ListResult_try_from_contents_first(value) ==
    LET common_prefixes ==
            collect([i \in 1..Len(value.common_prefixes) |->
                         Path_parse(value.common_prefixes[i].prefix)])
        objects ==
            collect([i \in 1..Len(value.contents) |->
                         ObjectMeta_try_from(value.contents[i])])
    IN IF ~objects.ok THEN objects
       ELSE IF ~common_prefixes.ok THEN common_prefixes
       ELSE Ok([common_prefixes |-> common_prefixes.value,
                objects |-> objects.value])

ListResult_try_from(value) ==
    LET common_prefixes ==
            collect([i \in 1..Len(value.common_prefixes) |->
                         Path_parse(value.common_prefixes[i].prefix)])
        objects ==
            collect([i \in 1..Len(value.contents) |->
                         ObjectMeta_try_from(value.contents[i])])
    IN IF ~common_prefixes.ok THEN common_prefixes
       ELSE IF ~objects.ok THEN objects
       ELSE Ok([common_prefixes |-> common_prefixes.value,
                objects |-> objects.value])

ListInit ==
    /\ response \in ListResponse
    /\ listResult = None

TryFrom ==
    /\ listResult = None
    /\ listResult' = Some(ListResult_try_from(response))
    /\ UNCHANGED response
    /\ UNCHANGED <<attrVars, partVars, tagVars>>

ListNext == TryFrom

----------------------------------------------------------------------------
(* client/s3.rs: multipart completion *)

\* struct PartId (crate::multipart): an opaque content_id
ContentIds == {"etag-a", "etag-b", "etag-c"}
PartId == [content_id : ContentIds]

\* impl From<Vec<PartId>> for CompleteMultipartUpload; enumerate() counts
\* from 0
CompleteMultipartUpload_from_zero_based(value) ==
    [part |-> [i \in 1..Len(value) |->
                  [e_tag |-> value[i].content_id, part_number |-> i - 1]]]

CompleteMultipartUpload_from(value) ==
    [part |-> [i \in 1..Len(value) |->
                  LET part_number == i - 1
                      part == value[i]
                  IN [e_tag |-> part.content_id, part_number |-> part_number + 1]]]

PartInit ==
    /\ parts \in SeqsUpTo(PartId, MaxParts)
    /\ complete = None

From ==
    /\ complete = None
    /\ complete' = Some(CompleteMultipartUpload_from(parts))
    /\ UNCHANGED parts
    /\ UNCHANGED <<attrVars, listVars, tagVars>>

PartNext == From

----------------------------------------------------------------------------
(* client/s3.rs: tagging *)

TagKeys == {"key1", "key2"}
TagValues == {"value1", "value2"}

\* struct Tag
Tag == [key : TagKeys, value : TagValues]

\* struct Tagging { list: TagList { tags: Vec<Tag> } }
Tagging == [list : [tags : SeqsUpTo(Tag, MaxTags)]]

\* HashMap<String, String>
TagMaps == UNION {[ks -> TagValues] : ks \in SUBSET TagKeys}

\* impl From<HashMap<String, String>> for Tagging, under one iteration order
\* of the map
Tagging_from_swapped(value, order) ==
    [list |-> [tags |-> [i \in 1..Len(order) |->
                            [key |-> value[order[i]], value |-> order[i]]]]]

Tagging_from(value, order) ==
    [list |-> [tags |-> [i \in 1..Len(order) |->
                            [key |-> order[i], value |-> value[order[i]]]]]]

\* HashMap::insert of (key, value) into m
map_insert(m, key, value) ==
    [k \in DOMAIN m \cup {key} |-> IF k = key THEN value ELSE m[k]]

\* an insert that keeps the entry already there
map_insert_keep(m, key, value) ==
    [k \in DOMAIN m \cup {key} |-> IF k = key /\ k \notin DOMAIN m THEN value ELSE m[k]]

\* HashMap::from_iter over the tags from position i on: each pair inserted
\* in turn into the map built so far
RECURSIVE collect_map_keep(_, _, _)
collect_map_keep(tags, i, m) ==
    IF i > Len(tags) THEN m
    ELSE collect_map_keep(tags, i + 1, map_insert_keep(m, tags[i].key, tags[i].value))

RECURSIVE collect_map(_, _, _)
collect_map(tags, i, m) ==
    IF i > Len(tags) THEN m
    ELSE collect_map(tags, i + 1, map_insert(m, tags[i].key, tags[i].value))

\* impl From<Tagging> for HashMap<String, String>
HashMap_from_keep_first(val) == collect_map_keep(val.list.tags, 1, EmptyMap)

HashMap_from(val) == collect_map(val.list.tags, 1, EmptyMap)

\* the XML declaration both renderings start with
Header == "<?xml version=\"1.0\" encoding=\"utf-8\"?>"

\* quick_xml::se of struct Tag (fields renamed to PascalCase)
se_Tag(tag) ==
    "<Tag><Key>" \o tag.key \o "</Key><Value>" \o tag.value \o "</Value></Tag>"

\* quick_xml::se of a Vec<Tag>: the elements one after the other
RECURSIVE se_tags(_)
se_tags(tags) ==
    IF tags = <<>> THEN "" ELSE se_Tag(Head(tags)) \o se_tags(Tail(tags))

\* quick_xml::se of struct TagList as the element TagSet; an element with no
\* children is written self-closed
se_TagList(list) ==
    IF list.tags = <<>> THEN "<TagSet/>"
    ELSE "<TagSet>" \o se_tags(list.tags) \o "</TagSet>"

\* quick_xml::se::to_string_with_root(root, &Tagging)
to_string_with_root(root, doc) ==
    "<" \o root \o ">" \o se_TagList(doc.list) \o "</" \o root \o ">"

\* quick_xml::se::to_string(&Tagging): the root is the type's name
to_string(doc) == to_string_with_root("Tagging", doc)

\* Tagging::to_xml_document; the serializer does not fail on a struct of
\* strings, so the map_err branch is not taken
to_xml_document(doc) == Ok(Header \o to_string(doc))

\* Tagging::to_xml_document_for_azure
to_xml_document_for_azure_same_root(doc) == Ok(Header \o to_string(doc))

to_xml_document_for_azure(doc) == Ok(Header \o to_string_with_root("Tags", doc))

TagInit ==
    /\ tagMap \in TagMaps
    /\ tagging \in Tagging
    /\ fromMap = FALSE
    /\ backMap = None
    /\ xml = None
    /\ xmlAzure = None

TaggingFromHashMap ==
    /\ \E order \in Orders(DOMAIN tagMap) : tagging' = Tagging_from(tagMap, order)
    /\ fromMap' = TRUE
    /\ backMap' = None
    /\ xml' = None
    /\ xmlAzure' = None
    /\ UNCHANGED tagMap
    /\ UNCHANGED <<attrVars, listVars, partVars>>

HashMapFromTagging ==
    /\ backMap' = Some(HashMap_from(tagging))
    /\ UNCHANGED <<tagMap, tagging, fromMap, xml, xmlAzure>>
    /\ UNCHANGED <<attrVars, listVars, partVars>>

ToXmlDocument ==
    /\ xml' = Some(to_xml_document(tagging))
    /\ UNCHANGED <<tagMap, tagging, fromMap, backMap, xmlAzure>>
    /\ UNCHANGED <<attrVars, listVars, partVars>>

ToXmlDocumentForAzure ==
    /\ xmlAzure' = Some(to_xml_document_for_azure(tagging))
    /\ UNCHANGED <<tagMap, tagging, fromMap, backMap, xml>>
    /\ UNCHANGED <<attrVars, listVars, partVars>>

TagNext ==
    \/ TaggingFromHashMap
    \/ HashMapFromTagging
    \/ ToXmlDocument
    \/ ToXmlDocumentForAzure

----------------------------------------------------------------------------
(* The specifications; each holds the other components at rest *)

AttrIdle ==
    /\ attrs = new
    /\ ret = None
    /\ last = [op |-> "new"]
    /\ insertedKeys = {}
    /\ distinctOnly = TRUE

ListIdle ==
    /\ response = [contents |-> <<>>, common_prefixes |-> <<>>,
                   next_continuation_token |-> None]
    /\ listResult = None

PartIdle ==
    /\ parts = <<>>
    /\ complete = None

TagIdle ==
    /\ tagMap = EmptyMap
    /\ tagging = [list |-> [tags |-> <<>>]]
    /\ fromMap = FALSE
    /\ backMap = None
    /\ xml = None
    /\ xmlAzure = None

InitAttr == AttrInit /\ ListIdle /\ PartIdle /\ TagIdle
SpecAttr == InitAttr /\ [][AttrNext]_vars

InitList == AttrIdle /\ ListInit /\ PartIdle /\ TagIdle
SpecList == InitList /\ [][ListNext]_vars

InitMultipart == AttrIdle /\ ListIdle /\ PartInit /\ TagIdle
SpecMultipart == InitMultipart /\ [][PartNext]_vars

InitTag == AttrIdle /\ ListIdle /\ PartIdle /\ TagInit
SpecTag == InitTag /\ [][TagNext]_vars

----------------------------------------------------------------------------
(* Properties of the attribute collection (SpecAttr) *)

\* the elements of a sequence, and whether each occurs once
Elems(s) == {s[i] : i \in 1..Len(s)}
NoDup(s) == \A i, j \in 1..Len(s) : s[i] = s[j] => i = j

\* C1: after only inserts with distinct keys since the empty collection,
\* len() is the number of keys inserted, a key inserted with None counting
\* like one inserted with Some; and get(k) right after insert(k, v) returns
\* Some(&v), which for v = None is Some(&None) and not None.
C1_LenCountsDistinctKeys ==
    /\ distinctOnly => len(attrs) = Cardinality(insertedKeys)
    /\ last.op = "insert" =>
          /\ get(attrs, last.key) = Some(last.value)
          /\ get(attrs, last.key) # None

C1_Witness ==
    /\ distinctOnly
    /\ Cardinality(insertedKeys) = 2
    /\ last.op = "insert"
    /\ last.value = None
    /\ get(attrs, last.key) = Some(None)
    /\ \E k \in DOMAIN attrs : attrs[k] # None

\* C2: insert(k, v) on a collection holding k replaces the value by v,
\* returns Some(previous optional value) and leaves len() as it was; on a
\* collection without k it returns None, adds the entry and len() grows by 1.
C2_InsertReplacesOrAdds ==
    [][last'.op = "insert" =>
          LET k == last'.key
              v == last'.value
          IN /\ get(attrs', k) = Some(v)
             /\ IF get(attrs, k) # None
                THEN /\ ret' = Some(attrs[k])
                     /\ len(attrs') = len(attrs)
                ELSE /\ ret' = None
                     /\ len(attrs') = len(attrs) + 1]_vars

C2_Witness ==
    /\ last.op = "insert"
    /\ ret = Some(None)
    /\ last.value # None
    /\ len(attrs) = 2

\* C3: remove(k) on a collection holding k returns the stored optional
\* value, makes get(k) None, lowers len() by 1 and leaves every other key's
\* mapping alone; on a collection without k it returns None and changes
\* nothing.
C3_RemoveFrame ==
    [][last'.op = "remove" =>
          LET k == last'.key
          IN IF get(attrs, k) # None
             THEN /\ ret' = Some(attrs[k])
                  /\ get(attrs', k) = None
                  /\ len(attrs') = len(attrs) - 1
                  /\ \A j \in Attribute \ {k} : get(attrs', j) = get(attrs, j)
             ELSE /\ ret' = None
                  /\ attrs' = attrs
                  /\ len(attrs') = len(attrs)]_vars

C3_Witness ==
    /\ last.op = "remove"
    /\ ret = Some(None)
    /\ len(attrs) = 1

\* C4: iter_set_values() yields, each once, the (key, value) pairs of exactly
\* the entries whose optional value is Some and nothing for a key held with
\* None; iter() yields every entry, set or unset, once.
C4_IterSetValues ==
    /\ last.op = "iter_set_values" =>
          /\ NoDup(ret)
          /\ Elems(ret) = {<<k, attrs[k][1]>> : k \in {j \in DOMAIN attrs : attrs[j] # None}}
    /\ last.op = "iter" =>
          /\ NoDup(ret)
          /\ Elems(ret) = {<<k, attrs[k]>> : k \in DOMAIN attrs}

C4_Witness ==
    /\ last.op = "iter_set_values"
    /\ len(attrs) = 2
    /\ Len(ret) = 1
    /\ \E k \in DOMAIN attrs : attrs[k] = None

----------------------------------------------------------------------------
(* Properties of the listing translation (SpecList) *)

Parses(s) == Path_parse(s).ok

\* the raw strings of the contents and of the common prefixes, in input order
ContentKeys == [i \in 1..Len(response.contents) |-> response.contents[i].key]
PrefixStrings ==
    [i \in 1..Len(response.common_prefixes) |-> response.common_prefixes[i].prefix]

AllParse(raws) == \A i \in 1..Len(raws) : Parses(raws[i])

\* the earliest unparsable string of a sequence that has one
FirstBad(raws) ==
    raws[CHOOSE i \in 1..Len(raws) :
            /\ ~Parses(raws[i])
            /\ \A j \in 1..(i - 1) : Parses(raws[j])]

\* C5: try_from is all-or-nothing. When every key and prefix parses, the
\* result holds one ObjectMeta per content entry and one Path per prefix, in
\* input order, with size, last_modified and e_tag copied (an absent ETag
\* stays None) and version None; when any fails to parse, the call returns
\* an error and no ListResult. Empty inputs give empty outputs.
C5_AllOrNothing ==
    listResult # None =>
        LET r == listResult[1]
        IN IF AllParse(ContentKeys) /\ AllParse(PrefixStrings)
           THEN /\ r.ok
                /\ Len(r.value.objects) = Len(response.contents)
                /\ \A i \in 1..Len(response.contents) :
                      r.value.objects[i] =
                          [location |-> Path_parse(response.contents[i].key).value,
                           last_modified |-> response.contents[i].last_modified,
                           size |-> response.contents[i].size,
                           e_tag |-> response.contents[i].e_tag,
                           version |-> None]
                /\ Len(r.value.common_prefixes) = Len(response.common_prefixes)
                /\ \A i \in 1..Len(response.common_prefixes) :
                      r.value.common_prefixes[i] =
                          Path_parse(response.common_prefixes[i].prefix).value
           ELSE /\ ~r.ok
                /\ DOMAIN r = {"ok", "error"}

C5_Witness ==
    /\ listResult # None
    /\ ~listResult[1].ok
    /\ Len(response.contents) = 2
    /\ Parses(response.contents[1].key)
    /\ ~Parses(response.contents[2].key)
    /\ Len(response.common_prefixes) = 1
    /\ AllParse(PrefixStrings)

\* C9 as stated: the contents are translated before the common prefixes, so
\* with an unparsable content key and an unparsable prefix the error is the
\* content key's; within a sequence it is the earliest unparsable element's.
C9_ContentErrorFirst ==
    (listResult # None /\ ~(AllParse(ContentKeys) /\ AllParse(PrefixStrings))) =>
        /\ ~listResult[1].ok
        /\ listResult[1].error.path =
              IF ~AllParse(ContentKeys) THEN FirstBad(ContentKeys)
              ELSE FirstBad(PrefixStrings)

\* C9 amended: the common prefixes are translated before the contents, each
\* in input order, stopping at the first unparsable entry; with an
\* unparsable prefix and an unparsable content key the error is the
\* prefix's, and within a sequence it is the earliest unparsable element's.
C9_PrefixErrorFirst ==
    (listResult # None /\ ~(AllParse(ContentKeys) /\ AllParse(PrefixStrings))) =>
        /\ ~listResult[1].ok
        /\ listResult[1].error.path =
              IF ~AllParse(PrefixStrings) THEN FirstBad(PrefixStrings)
              ELSE FirstBad(ContentKeys)

C9_Witness ==
    /\ listResult # None
    /\ ~AllParse(ContentKeys)
    /\ ~AllParse(PrefixStrings)
    /\ Len(response.common_prefixes) = 2
    /\ ~Parses(response.common_prefixes[1].prefix)
    /\ ~Parses(response.common_prefixes[2].prefix)
    /\ response.common_prefixes[1].prefix # response.common_prefixes[2].prefix
    /\ FirstBad(ContentKeys) # FirstBad(PrefixStrings)
    /\ listResult[1].error.path = response.common_prefixes[1].prefix

----------------------------------------------------------------------------
(* Properties of the multipart completion (SpecMultipart) *)

\* C6: from N PartIds come exactly N MultipartParts, the i-th with
\* part_number i and the i-th input's content_id as e_tag: none reordered,
\* deduplicated or dropped, and part_number independent of the content_id.
C6_PartNumbersByPosition ==
    complete # None =>
        LET part == complete[1].part
        IN /\ Len(part) = Len(parts)
           /\ \A i \in 1..Len(parts) :
                 /\ part[i].part_number = i
                 /\ part[i].e_tag = parts[i].content_id

C6_Witness ==
    /\ complete # None
    /\ Len(parts) = 3
    /\ parts[1] = parts[3]
    /\ parts[1] # parts[2]
    /\ complete[1].part[3] = [e_tag |-> parts[1].content_id, part_number |-> 3]

----------------------------------------------------------------------------
(* Properties of the tag conversions (SpecTag) *)

tags == tagging.list.tags

\* C7: a map turned into a Tagging and back is the same map, whatever order
\* the Tags were emitted in, and the Tagging holds one Tag per pair.
C7_RoundTrip ==
    /\ fromMap =>
          /\ Len(tags) = Cardinality(DOMAIN tagMap)
          /\ Elems(tags) = {[key |-> k, value |-> tagMap[k]] : k \in DOMAIN tagMap}
    /\ (fromMap /\ backMap # None) => backMap[1] = tagMap

C7_Witness ==
    /\ fromMap
    /\ backMap # None
    /\ Cardinality(DOMAIN tagMap) = 2
    /\ tags[1].key = "key2"
    /\ backMap[1] = tagMap

\* the XML of the Tag entries from position i on
RECURSIVE TagEntries(_, _)
TagEntries(ts, i) ==
    IF i > Len(ts) THEN ""
    ELSE "<Tag><Key>" \o ts[i].key \o "</Key><Value>" \o ts[i].value
         \o "</Value></Tag>" \o TagEntries(ts, i + 1)

\* the TagSet element both dialects share
TagSetElement(ts) ==
    IF ts = <<>> THEN "<TagSet/>" ELSE "<TagSet>" \o TagEntries(ts, 1) \o "</TagSet>"

\* C8: both renderings of one Tagging are the header directly followed by
\* the body; they differ only in the root element's name, Tagging against
\* Tags, in the opening and the closing tag, and the TagSet inside is the
\* same and lists the Tag entries in the order of the tags sequence.
C8_TwoDialects ==
    /\ xml # None =>
          xml[1] = Ok("<?xml version=\"1.0\" encoding=\"utf-8\"?>"
                      \o "<Tagging>" \o TagSetElement(tags) \o "</Tagging>")
    /\ xmlAzure # None =>
          xmlAzure[1] = Ok("<?xml version=\"1.0\" encoding=\"utf-8\"?>"
                           \o "<Tags>" \o TagSetElement(tags) \o "</Tags>")

\* the documents expected by test_tagging and test_tagging_azure
C8_Witness ==
    /\ tags = <<[key |-> "key1", value |-> "value1"], [key |-> "key2", value |-> "value2"]>>
    /\ xml = Some(Ok("<?xml version=\"1.0\" encoding=\"utf-8\"?><Tagging><TagSet><Tag><Key>key1</Key><Value>value1</Value></Tag><Tag><Key>key2</Key><Value>value2</Value></Tag></TagSet></Tagging>"))
    /\ xmlAzure = Some(Ok("<?xml version=\"1.0\" encoding=\"utf-8\"?><Tags><TagSet><Tag><Key>key1</Key><Value>value1</Value></Tag><Tag><Key>key2</Key><Value>value2</Value></Tag></TagSet></Tags>"))

\* C10: the map built from a Tagging maps each key of the document to the
\* value of its last occurrence and holds no other key; its size is the
\* number of distinct keys, below the number of Tags exactly when a key
\* occurs twice.
C10_LastWriteWins ==
    backMap # None =>
        LET m == backMap[1]
        IN /\ DOMAIN m = {tags[i].key : i \in 1..Len(tags)}
           /\ \A i \in 1..Len(tags) :
                 (\A j \in (i + 1)..Len(tags) : tags[j].key # tags[i].key)
                     => m[tags[i].key] = tags[i].value
           /\ Cardinality(DOMAIN m) = Cardinality({tags[i].key : i \in 1..Len(tags)})
           /\ (Cardinality(DOMAIN m) < Len(tags)) <=> ~NoDup([i \in 1..Len(tags) |-> tags[i].key])

C10_Witness ==
    /\ backMap # None
    /\ ~fromMap
    /\ Len(tags) = 3
    /\ tags[1].key = tags[3].key
    /\ tags[1].value # tags[3].value
    /\ tags[2].key # tags[1].key
    /\ backMap[1][tags[1].key] = tags[3].value
    /\ Cardinality(DOMAIN backMap[1]) = 2

====
